---- MODULE Spec2Model ----
(***************************************************************************)
(* Flow-Track order workflow: the order store and the order-update         *)
(* endpoint of the order controller (updateOrderStatus), modelled as a     *)
(* state machine.  One request is handled by one slot; a slot moves        *)
(* through the await points of the handler: findOne (Load), each           *)
(* streamUpload (Upload / UploadFail), the synchronous mutation block      *)
(* (Apply) and order.save() (Save / SaveFail).                             *)
(*                                                                         *)
(* Strings that the code inspects (notes) are sequences of tokens, so      *)
(* that startsWith / trim are computed and not assumed.                    *)
(***************************************************************************)
EXTENDS Integers, Sequences, FiniteSets, TLC

\* ------------------------------------------------------------------ bounds
MaxNotes == 2        \* notes a stored order gets from status requests
MaxShipments == 2    \* shipment notes a stored order gets
MaxAttachments == 2  \* uploaded files a stored order gets
MaxImported == 3     \* orders the import runs add to the stored ones

\* ------------------------------------------------------- values of the code
Undefined == "undefined"

AT_TEAM == "At Team"
AT_DIGITIZER == "At Digitizer"
TEAM_REVIEW == "Team Review"
AT_VENDOR == "At Vendor"
PARTIALLY_SHIPPED == "Partially Shipped"
OUT_FOR_DELIVERY == "Out for Delivery"

Statuses ==
  {AT_TEAM, AT_DIGITIZER, TEAM_REVIEW, AT_VENDOR, PARTIALLY_SHIPPED, OUT_FOR_DELIVERY}

\* a status string outside the enumeration, as a caller may send it
CANCELLED == "Cancelled"

TEAM_REJECTED == "Team rejected:"

Slots == {1, 2}

\* ---------------------------------------------------------------- order ids
\* an order id is the token "ORD-" followed by its decimal digits
RECURSIVE toString(_)
toString(n) == IF n < 10 THEN <<n>> ELSE toString(n \div 10) \o <<n % 10>>

\* s.padStart(len, '0')
RECURSIVE padStart(_, _)
padStart(s, len) == IF Len(s) >= len THEN s ELSE padStart(<<0>> \o s, len)

\* `ORD-${n.toString().padStart(3, '0')}`
FormatOrderId(n) == <<"ORD-">> \o padStart(toString(n), 3)

\* parseInt of a digit string
RECURSIVE parseInt(_)
parseInt(s) == IF Len(s) = 0 THEN 0 ELSE 10 * parseInt(SubSeq(s, 1, Len(s) - 1)) + s[Len(s)]

\* parseInt(id.split('-')[1])
OrderIdNumber(id) == parseInt(Tail(id))

OrderId == FormatOrderId(1)
UnknownOrderId == FormatOrderId(404)

\* the users collection (User.findOne): id -> name
UserDirectory ==
  [id \in {"d1", "d2", "v1"} |->
     CASE id = "d1" -> "Dana" [] id = "d2" -> "Dev" [] OTHER -> "Vik"]

\* acting users as supplied by the protect middleware
TeamUser == [id |-> "u1", name |-> "Tina", email |-> "tina@ft", role |-> "Team"]
TeamUser2 == [id |-> "u2", name |-> "Tom", email |-> "tom@ft", role |-> "Team"]
VendorUser == [id |-> "v1", name |-> "Vik", email |-> "vik@ft", role |-> "Vendor"]
DigitizerUser == [id |-> "d1", name |-> "Dana", email |-> "dana@ft", role |-> "Digitizer"]
AdminUser == [id |-> "a1", name |-> "Ada", email |-> "ada@ft", role |-> "Admin"]

\* ------------------------------------------------------------ transitions
transitions ==
  [s \in {AT_DIGITIZER, TEAM_REVIEW, AT_VENDOR, PARTIALLY_SHIPPED, OUT_FOR_DELIVERY} |->
     CASE s = AT_DIGITIZER -> {AT_TEAM, TEAM_REVIEW}
       [] s = TEAM_REVIEW -> {AT_DIGITIZER}
       [] s = AT_VENDOR -> {TEAM_REVIEW, PARTIALLY_SHIPPED}
       [] s = PARTIALLY_SHIPPED -> {AT_VENDOR, PARTIALLY_SHIPPED, OUT_FOR_DELIVERY}
       [] OTHER -> {AT_VENDOR, PARTIALLY_SHIPPED}]

\* note.startsWith(prefix) on token sequences
startsWith(note, prefix) == Len(note) >= 1 /\ note[1] = prefix

\* JSON.parse(shippedItems): ok = FALSE when it throws
JSONparse(s) ==
  CASE s.kind = "garbage" -> [ok |-> FALSE, isArray |-> FALSE, items |-> <<>>]
    [] s.kind = "object" -> [ok |-> TRUE, isArray |-> FALSE, items |-> <<>>]
    [] OTHER -> [ok |-> TRUE, isArray |-> TRUE, items |-> s.items]

\* truthiness of the shippedItems form field
Present(s) == s.kind # "absent"

\* variant of isPartialShip: a list without entries is not taken for a shipment
isPartialShipNonEmpty(q) ==
  /\ Present(q.shippedItems)
  /\ JSONparse(q.shippedItems).ok
  /\ JSONparse(q.shippedItems).isArray
  /\ Len(JSONparse(q.shippedItems).items) > 0

isPartialShip(q) ==
  /\ Present(q.shippedItems)
  /\ JSONparse(q.shippedItems).ok
  /\ JSONparse(q.shippedItems).isArray

isReassigningDigitizer(q, order) ==
  /\ order.status = AT_DIGITIZER
  /\ q.status = AT_DIGITIZER
  /\ q.digitizerId # Undefined
  /\ q.digitizerId # order.digitizerId

isSubStatusChange(q, order) ==
  \/ (q.digitizerStatus # Undefined /\ q.digitizerStatus # order.digitizerStatus)
  \/ (q.vendorStatus # Undefined /\ q.vendorStatus # order.vendorStatus)

isPriorityChange(q, order) ==
  q.priority # Undefined /\ q.priority # order.priority

\* variant of IsNoOp: a request with note text is not taken for a no-op
IsNoOpUnlessNote(q, order) ==
  /\ order.status = q.status
  /\ ~isReassigningDigitizer(q, order)
  /\ ~isSubStatusChange(q, order)
  /\ ~isPriorityChange(q, order)
  /\ ~isPartialShip(q)
  /\ Len(q.files) = 0
  /\ Len(q.note) = 0

\* the no-op guard of the handler
IsNoOp(q, order) ==
  /\ order.status = q.status
  /\ ~isReassigningDigitizer(q, order)
  /\ ~isSubStatusChange(q, order)
  /\ ~isPriorityChange(q, order)
  /\ ~isPartialShip(q)
  /\ Len(q.files) = 0

expectedPreviousStatus(note) ==
  IF startsWith(note, TEAM_REJECTED) THEN TEAM_REVIEW ELSE AT_TEAM

\* variant of TransitionAllowed: no check of the status the order comes from
TransitionAllowedAlways(currentStatus, newStatus, note) == TRUE

\* variant of TransitionAllowed: 'At Digitizer' is checked against its table row
\* like every other target
TransitionAllowedByRow(currentStatus, newStatus, note) ==
  IF currentStatus = newStatus THEN TRUE
  ELSE IF newStatus \notin DOMAIN transitions THEN TRUE
  ELSE currentStatus \in transitions[newStatus]

\* TRUE when the transition check lets the request through
TransitionAllowed(currentStatus, newStatus, note) ==
  IF currentStatus = newStatus THEN TRUE
  ELSE IF newStatus \notin DOMAIN transitions THEN TRUE
  ELSE IF newStatus = AT_DIGITIZER THEN currentStatus = expectedPreviousStatus(note)
  ELSE currentStatus \in transitions[newStatus]

\* ----------------------------------------------------------- the document
\* ids of generated notes / attachments: unique per slot (Date.now + random)
Max(S) == CHOOSE x \in S : \A y \in S : y <= x

FreshId(r, items) ==
  <<r, 1 + Max({0} \cup {items[i].id[2] : i \in {j \in DOMAIN items : items[j].id[1] = r}})>>

\* timestamp: new Date() of a note: the instant its id is made from (Date.now())
Instant(id) == id

\* the order the importer stores for one feed record (syncShopifyOrders)
SystemNote(k, content) ==
  [id |-> <<0, k>>, content |-> content, authorName |-> "System",
   authorRole |-> "System", targetRole |-> "Team", timestamp |-> Instant(<<0, k>>),
   isEdited |-> FALSE]

ImportedOrder(lineItems, productName, attachments) ==
  [status |-> AT_TEAM,
   digitizerId |-> Undefined, vendorId |-> Undefined,
   digitizerStatus |-> Undefined, vendorStatus |-> Undefined,
   priority |-> "Medium",
   productName |-> productName,
   lineItems |-> lineItems,
   attachments |-> attachments,
   notes |-> << SystemNote(1, <<"Imported from Shopify. Order #", "1001">>),
               SystemNote(2, <<"Order automatically assigned to Team for processing.">>) >>,
   associatedUsers |-> <<>>]

ShopifyAttachment ==
  [id |-> <<0, 1>>, name |-> "logo.png", uploadedBy |-> "Sales", fromShopify |-> TRUE]

\* line_items of a feed record -> lineItems / productName
FeedLineItems(feed) ==
  [i \in DOMAIN feed |-> [name |-> feed[i].name, quantity |-> feed[i].quantity, shippedQuantity |-> 0]]

\* productName is kept as its ', '-separated segments; qty = -1 stands for a
\* segment without the "<qty> x " prefix (the regex does not match)
FeedProductName(feed) ==
  [i \in DOMAIN feed |-> [qty |-> feed[i].quantity, name |-> feed[i].name]]

\* order.productName.split(', ').map(...)
ParseSegment(seg) ==
  IF seg.qty >= 0
    THEN [name |-> seg.name, quantity |-> seg.qty, shippedQuantity |-> 0]
    ELSE [name |-> seg.name, quantity |-> 1, shippedQuantity |-> 0]

ensureLineItems(order) ==
  IF Len(order.lineItems) = 0
    THEN [i \in DOMAIN order.productName |-> ParseSegment(order.productName[i])]
    ELSE order.lineItems

\* order.lineItems.find(li => li.name === name): index of the first match, 0 if none
FindLineItem(lineItems, name) ==
  IF \E i \in DOMAIN lineItems : lineItems[i].name = name
    THEN CHOOSE i \in DOMAIN lineItems :
           /\ lineItems[i].name = name
           /\ \A j \in DOMAIN lineItems : lineItems[j].name = name => i <= j
    ELSE 0

\* one iteration of parsedShipped.forEach
ShipOne(lineItems, item) ==
  LET i == FindLineItem(lineItems, item.name) IN
    IF i = 0 THEN lineItems
    ELSE [lineItems EXCEPT ![i].shippedQuantity = @ + item.quantity]

RECURSIVE applyShipment(_, _)
applyShipment(lineItems, items) ==
  IF Len(items) = 0 THEN lineItems
  ELSE applyShipment(ShipOne(lineItems, Head(items)), Tail(items))

\* shipmentDetails.length > 0
AnyMatched(lineItems, items) ==
  \E k \in DOMAIN items : FindLineItem(lineItems, items[k].name) # 0

\* variant of allShipped: strict comparison
allShippedStrict(lineItems) ==
  \A i \in DOMAIN lineItems : lineItems[i].shippedQuantity > lineItems[i].quantity

allShipped(lineItems) ==
  \A i \in DOMAIN lineItems : lineItems[i].shippedQuantity >= lineItems[i].quantity

ShipmentStatus(lineItems) ==
  IF allShipped(lineItems) THEN OUT_FOR_DELIVERY ELSE PARTIALLY_SHIPPED

\* isAlreadyAssociated / associatedUsers.push
Associate(order, user) ==
  IF \E i \in DOMAIN order.associatedUsers : order.associatedUsers[i].id = user.id
    THEN order
    ELSE [order EXCEPT !.associatedUsers = Append(@, user)]

\* note.trim(): whitespace tokens are " "
IsBlank(tok) == tok = " "

RECURSIVE trimStart(_)
trimStart(s) ==
  IF Len(s) > 0 /\ IsBlank(Head(s)) THEN trimStart(Tail(s)) ELSE s

RECURSIVE trimEnd(_)
trimEnd(s) ==
  IF Len(s) > 0 /\ IsBlank(s[Len(s)]) THEN trimEnd(SubSeq(s, 1, Len(s) - 1)) ELSE s

trim(s) == trimEnd(trimStart(s))

\* User.findOne({ id }) -> name, or the fallback
AssignedName(id, fallback) ==
  IF id # Undefined /\ id \in DOMAIN UserDirectory THEN UserDirectory[id] ELSE fallback

\* --------------------------------------------------------- note generation
SENT_TO_DIGITIZER == "Sent to digitizer."
DESIGN_COMPLETE == "Digitizer: Design complete."
ORDER_SHIPPED == "Vendor: Order has been shipped."
SENT_TO_VENDOR == "Sent to vendor:"
NOTE_FOR_VENDOR == "Note for vendor:"
NOTE_SEP == " Note: "

\* note.replace(prefix, '').replace(/^ Note: /, '').trim(), for a note that starts with prefix
StripCanned(note) ==
  LET rest == Tail(note) IN
    trim(IF startsWith(rest, NOTE_SEP) THEN Tail(rest) ELSE rest)

\* note.split('Note for vendor:')[1]?.trim() || ''
RECURSIVE UpTo(_, _)
UpTo(s, tok) ==
  IF Len(s) = 0 \/ Head(s) = tok THEN <<>> ELSE <<Head(s)>> \o UpTo(Tail(s), tok)

RECURSIVE After(_, _)
After(s, tok) ==
  IF Len(s) = 0 THEN <<>>
  ELSE IF Head(s) = tok THEN Tail(s) ELSE After(Tail(s), tok)

SplitSecond(note, tok) == trim(UpTo(After(note, tok), tok))

includes(note, tok) == \E i \in DOMAIN note : note[i] = tok

NewLine(userNote) == IF Len(userNote) > 0 THEN <<"\n">> \o userNote ELSE <<>>

\* variant of ComposeNote: the "Assigned to" / "Sent to" note is composed only
\* when the request changes the status
ComposeNoteOnEntry(q, currentStatus) ==
  LET note == q.note
      newStatus == q.status
      shipped == Present(q.shippedItems)
      plain == IF Len(note) > 0 /\ ~shipped THEN trim(note) ELSE <<>>
  IN
  IF newStatus = AT_DIGITIZER /\ ~shipped /\ currentStatus # newStatus THEN
    IF ~startsWith(note, TEAM_REJECTED) THEN
      [targetRole |-> "Digitizer",
       content |-> <<"Assigned to ", AssignedName(q.digitizerId, "Digitizer")>>
                     \o NewLine(IF startsWith(note, SENT_TO_DIGITIZER)
                                  THEN StripCanned(note) ELSE note)]
    ELSE [targetRole |-> "Digitizer", content |-> plain]
  ELSE IF newStatus = AT_VENDOR /\ ~shipped /\ currentStatus # newStatus THEN
    [targetRole |-> "Vendor",
     content |-> <<"Sent to ", AssignedName(q.vendorId, "Vendor")>>
                   \o NewLine(IF includes(note, SENT_TO_VENDOR)
                                THEN SplitSecond(note, NOTE_FOR_VENDOR) ELSE note)]
  ELSE IF currentStatus = AT_DIGITIZER /\ newStatus = TEAM_REVIEW /\ ~shipped THEN
    [targetRole |-> "Digitizer",
     content |-> IF startsWith(note, DESIGN_COMPLETE) THEN StripCanned(note) ELSE note]
  ELSE IF currentStatus = AT_VENDOR /\ newStatus = OUT_FOR_DELIVERY /\ ~shipped THEN
    [targetRole |-> "Vendor",
     content |-> IF startsWith(note, ORDER_SHIPPED) THEN StripCanned(note) ELSE note]
  ELSE [targetRole |-> "Team", content |-> plain]

\* lines 409-442: [content, targetRole] of the note of a request
ComposeNote(q, currentStatus) ==
  LET note == q.note
      newStatus == q.status
      shipped == Present(q.shippedItems)
      plain == IF Len(note) > 0 /\ ~shipped THEN trim(note) ELSE <<>>
  IN
  IF newStatus = AT_DIGITIZER /\ ~shipped THEN
    IF ~startsWith(note, TEAM_REJECTED) THEN
      [targetRole |-> "Digitizer",
       content |-> <<"Assigned to ", AssignedName(q.digitizerId, "Digitizer")>>
                     \o NewLine(IF startsWith(note, SENT_TO_DIGITIZER)
                                  THEN StripCanned(note) ELSE note)]
    ELSE [targetRole |-> "Digitizer", content |-> plain]
  ELSE IF newStatus = AT_VENDOR /\ ~shipped THEN
    [targetRole |-> "Vendor",
     content |-> <<"Sent to ", AssignedName(q.vendorId, "Vendor")>>
                   \o NewLine(IF includes(note, SENT_TO_VENDOR)
                                THEN SplitSecond(note, NOTE_FOR_VENDOR) ELSE note)]
  ELSE IF currentStatus = AT_DIGITIZER /\ newStatus = TEAM_REVIEW /\ ~shipped THEN
    [targetRole |-> "Digitizer",
     content |-> IF startsWith(note, DESIGN_COMPLETE) THEN StripCanned(note) ELSE note]
  ELSE IF currentStatus = AT_VENDOR /\ newStatus = OUT_FOR_DELIVERY /\ ~shipped THEN
    [targetRole |-> "Vendor",
     content |-> IF startsWith(note, ORDER_SHIPPED) THEN StripCanned(note) ELSE note]
  ELSE [targetRole |-> "Team", content |-> plain]

MakeNote(r, order, q, content, targetRole) ==
  [id |-> FreshId(r, order.notes), content |-> content,
   authorName |-> q.user.name, authorRole |-> q.user.role,
   targetRole |-> targetRole, timestamp |-> Instant(FreshId(r, order.notes)),
   isEdited |-> FALSE]

\* lines 345-394: the shipment branch / the standard update
ApplyStatus(r, order, q) ==
  IF Present(q.shippedItems) THEN
    LET items == JSONparse(q.shippedItems).items
        lineItems == applyShipment(ensureLineItems(order), items)
        matched == AnyMatched(ensureLineItems(order), items)
        full == allShipped(lineItems)
        partialNote == <<IF full THEN "Order fully shipped" ELSE "Order partially shipped", ".">>
                         \o (IF Len(q.note) > 0 THEN <<" ">> \o q.note ELSE <<>>)
        o1 == [order EXCEPT !.lineItems = lineItems, !.status = ShipmentStatus(lineItems)]
    IN IF matched
         THEN [o1 EXCEPT !.notes = Append(@, MakeNote(r, order, q, partialNote, "Vendor"))]
         ELSE o1
  ELSE [order EXCEPT !.status = q.status]

\* variant of ApplyFields: the reset to 'Pending' comes before the fields of
\* the request are applied, so a sub-status of the request replaces it
ApplyFieldsResetFirst(order, q, currentStatus) ==
  LET o1 == IF q.status = AT_DIGITIZER /\ currentStatus # AT_DIGITIZER
              THEN [order EXCEPT !.digitizerStatus = "Pending"] ELSE order
      o2 == IF q.status = AT_VENDOR /\ currentStatus # AT_VENDOR
              THEN [o1 EXCEPT !.vendorStatus = "Pending"] ELSE o1
  IN [o2 EXCEPT
        !.digitizerId = IF q.digitizerId # Undefined THEN q.digitizerId ELSE @,
        !.vendorId = IF q.vendorId # Undefined THEN q.vendorId ELSE @,
        !.priority = IF q.priority # Undefined THEN q.priority ELSE @,
        !.digitizerStatus = IF q.digitizerStatus # Undefined THEN q.digitizerStatus ELSE @,
        !.vendorStatus = IF q.vendorStatus # Undefined THEN q.vendorStatus ELSE @]

\* variant of ApplyFields: the sub-status is reset whenever the target is
\* 'At Digitizer' / 'At Vendor', also when the order has that status already
ApplyFieldsResetAlways(order, q, currentStatus) ==
  LET o1 == [order EXCEPT
               !.digitizerId = IF q.digitizerId # Undefined THEN q.digitizerId ELSE @,
               !.vendorId = IF q.vendorId # Undefined THEN q.vendorId ELSE @,
               !.priority = IF q.priority # Undefined THEN q.priority ELSE @,
               !.digitizerStatus = IF q.digitizerStatus # Undefined THEN q.digitizerStatus ELSE @,
               !.vendorStatus = IF q.vendorStatus # Undefined THEN q.vendorStatus ELSE @]
      o2 == IF q.status = AT_DIGITIZER
              THEN [o1 EXCEPT !.digitizerStatus = "Pending"] ELSE o1
  IN IF q.status = AT_VENDOR
       THEN [o2 EXCEPT !.vendorStatus = "Pending"] ELSE o2

\* lines 396-407
ApplyFields(order, q, currentStatus) ==
  LET o1 == [order EXCEPT
               !.digitizerId = IF q.digitizerId # Undefined THEN q.digitizerId ELSE @,
               !.vendorId = IF q.vendorId # Undefined THEN q.vendorId ELSE @,
               !.priority = IF q.priority # Undefined THEN q.priority ELSE @,
               !.digitizerStatus = IF q.digitizerStatus # Undefined THEN q.digitizerStatus ELSE @,
               !.vendorStatus = IF q.vendorStatus # Undefined THEN q.vendorStatus ELSE @]
      o2 == IF q.status = AT_DIGITIZER /\ currentStatus # AT_DIGITIZER
              THEN [o1 EXCEPT !.digitizerStatus = "Pending"] ELSE o1
  IN IF q.status = AT_VENDOR /\ currentStatus # AT_VENDOR
       THEN [o2 EXCEPT !.vendorStatus = "Pending"] ELSE o2

\* variant of ApplyNote: the note is pushed whatever its content
ApplyNoteAlways(r, order, q, currentStatus) ==
  LET n == ComposeNote(q, currentStatus) IN
    [order EXCEPT !.notes = Append(@, MakeNote(r, order, q, n.content, n.targetRole))]

\* lines 409-453
ApplyNote(r, order, q, currentStatus) ==
  LET n == ComposeNote(q, currentStatus) IN
    IF Len(n.content) > 0
      THEN [order EXCEPT !.notes = Append(@, MakeNote(r, order, q, n.content, n.targetRole))]
      ELSE order

\* JSON.parse(shippedItems) at line 347 throws, or parsedShipped.forEach is not a function
MutationThrows(q) ==
  Present(q.shippedItems) /\ ~isPartialShip(q)

\* lines 345-458 on the in-memory document
Mutate(r, order, q, currentStatus) ==
  ApplyNote(r, ApplyFields(ApplyStatus(r, order, q), q, currentStatus), q, currentStatus)

\* lines 324-338: one uploaded file
NewAttachment(r, order, q, file) ==
  [id |-> FreshId(r, order.attachments), name |-> file,
   uploadedBy |-> IF q.uploadedBy # Undefined THEN q.uploadedBy ELSE q.user.role,
   fromShopify |-> FALSE]

\* order.save(): the paths the handler modified are written; the arrays it
\* marks modified are written whole
Persist(stored, loaded, doc) ==
  [stored EXCEPT
     !.status = IF doc.status # loaded.status THEN doc.status ELSE @,
     !.digitizerId = IF doc.digitizerId # loaded.digitizerId THEN doc.digitizerId ELSE @,
     !.vendorId = IF doc.vendorId # loaded.vendorId THEN doc.vendorId ELSE @,
     !.priority = IF doc.priority # loaded.priority THEN doc.priority ELSE @,
     !.digitizerStatus = IF doc.digitizerStatus # loaded.digitizerStatus THEN doc.digitizerStatus ELSE @,
     !.vendorStatus = IF doc.vendorStatus # loaded.vendorStatus THEN doc.vendorStatus ELSE @,
     !.associatedUsers = IF doc.associatedUsers # loaded.associatedUsers THEN doc.associatedUsers ELSE @,
     !.notes = doc.notes,
     !.lineItems = doc.lineItems,
     !.attachments = doc.attachments]

\* ------------------------------------------- notes and attachments handlers
\* the handler a request is for
Op(q) == IF "op" \in DOMAIN q THEN q.op ELSE "updateOrderStatus"

\* items.findIndex(x => x.id === id): 0 if none
FindById(items, id) ==
  IF \E i \in DOMAIN items : items[i].id = id
    THEN CHOOSE i \in DOMAIN items :
           /\ items[i].id = id
           /\ \A j \in DOMAIN items : items[j].id = id => i <= j
    ELSE 0

\* items.filter(keep)
RECURSIVE FilterOutId(_, _)
FilterOutId(items, id) ==
  IF Len(items) = 0 THEN <<>>
  ELSE IF Head(items).id = id THEN FilterOutId(Tail(items), id)
  ELSE <<Head(items)>> \o FilterOutId(Tail(items), id)

\* addOrderNote, lines 484-503: the pushed note and the associated user
PushNote(r, order, q) ==
  Associate(
    [order EXCEPT !.notes =
       Append(@, [id |-> FreshId(r, order.notes), content |-> q.note,
                  authorName |-> q.user.name, authorRole |-> q.user.role,
                  targetRole |-> IF q.targetRole # Undefined THEN q.targetRole ELSE "Team",
                  timestamp |-> Instant(FreshId(r, order.notes)),
                  isEdited |-> FALSE])],
    q.user)

\* variant of canEdit: a team member or an admin may edit any note
canEditAnyNote(note, user) ==
  \/ (note.authorRole = user.role /\ note.authorName = user.name)
  \/ user.role \in {"Team", "Admin"}

\* updateOrderNote, lines 530-534
canEdit(note, user) ==
  LET isAuthor == note.authorRole = user.role /\ note.authorName = user.name
      isTeamOrAdmin == user.role = "Team" \/ user.role = "Admin"
      isNoteByTeam == note.authorRole = "Team"
  IN isAuthor \/ (isTeamOrAdmin /\ isNoteByTeam)

\* variant of EditNote: the edited note is taken out of the list and pushed
\* again as a new note
EditNoteRepush(order, i, content) ==
  [order EXCEPT !.notes =
     SubSeq(@, 1, i - 1) \o SubSeq(@, i + 1, Len(@))
       \o <<[@[i] EXCEPT !.content = content, !.isEdited = TRUE,
                         !.timestamp = Instant(<<9, 9>>)]>>]

\* updateOrderNote, lines 540-541
EditNote(order, i, content) ==
  [order EXCEPT !.notes[i].content = content, !.notes[i].isEdited = TRUE]

\* variant of canDelete: the role check comes first, so a team member or an
\* admin may delete any attachment
canDeleteByRoleFirst(attachment, user) ==
  \/ user.role = "Team" \/ user.role = "Admin"
  \/ (~attachment.fromShopify /\ attachment.uploadedBy = user.role)

\* variant of canDelete: no check of the actor's role
canDeleteAnyRole(attachment, user) ==
  ~attachment.fromShopify

\* deleteOrderAttachment, lines 563-572
canDelete(attachment, user) ==
  LET isPrivilegedUser == user.role = "Team" \/ user.role = "Admin"
      isOwner == attachment.uploadedBy = user.role
  IN ~attachment.fromShopify /\ (isPrivilegedUser \/ isOwner)

\* the suffix of a sequence that an in-memory push added to the loaded one
Pushed(before, after) == SubSeq(after, Len(before) + 1, Len(after))

\* addOrderNote's save: the pushes to notes and associatedUsers reach the
\* store as $push updates, applied to the arrays as they are stored
PersistPush(stored, loaded, doc) ==
  [stored EXCEPT
     !.notes = @ \o Pushed(loaded.notes, doc.notes),
     !.associatedUsers = @ \o Pushed(loaded.associatedUsers, doc.associatedUsers)]

\* ------------------------------------------------------------------- state
VARIABLES
  orders,   \* the orders collection: id -> stored document
  pc,       \* per slot: "idle", "upload", "apply", "save", "done" (answered)
  req,      \* per slot: the request being handled (params, body, files, user)
  cur,      \* per slot: currentStatus, read at load
  loaded,   \* per slot: the document as findOne returned it (NoDoc: none found)
  doc,      \* per slot: the in-memory document
  upl,      \* per slot: number of files uploaded so far
  res,      \* per slot: HTTP status of the response, 0 while none
  stale,    \* per slot: the stored document's version key (__v) is no longer
            \* the one the slot loaded
  created   \* the stored orders in insertion order: id, shopifyOrderId, createdAt

vars == <<orders, pc, req, cur, loaded, doc, upl, res, stale, created>>

NoDoc == [status |-> "none"]
NoReq == [id |-> "none"]

\* ------------------------------------------------------------------ inputs
NoShipment == [kind |-> "absent", items |-> <<>>]
Shipment(items) == [kind |-> "array", items |-> items]

Request(status, note, digitizerId, vendorId, priority, digitizerStatus, vendorStatus, shippedItems, files, uploadedBy, user) ==
  [id |-> OrderId, status |-> status, note |-> note, digitizerId |-> digitizerId,
   vendorId |-> vendorId, priority |-> priority, digitizerStatus |-> digitizerStatus,
   vendorStatus |-> vendorStatus, shippedItems |-> shippedItems, files |-> files,
   uploadedBy |-> uploadedBy, user |-> user]

Feed == << [name |-> "Mug", quantity |-> 2] >>

Targets == Statuses \cup {CANCELLED}

NotesIn == { <<>>, <<"ok">>, <<TEAM_REJECTED, "fix colors">> }

Plain(status, note, digitizerId, vendorId, user) ==
  Request(status, note, digitizerId, vendorId, Undefined, Undefined, Undefined, NoShipment,
          <<>>, Undefined, user)

\* status changes with a note and a digitizer / vendor assignment
RoutingRequests ==
  { Plain(st, n, Undefined, Undefined, TeamUser) : st \in Targets, n \in NotesIn }
  \cup { Plain(AT_DIGITIZER, n, d, Undefined, TeamUser) :
           n \in {<<>>, <<TEAM_REJECTED, "fix colors">>}, d \in {"d1", "d2"} }
  \cup { Plain(AT_VENDOR, <<>>, Undefined, "v1", TeamUser),
         Plain(AT_VENDOR, <<>>, "d2", Undefined, TeamUser) }

\* sub-status and priority updates
SubStatusRequests ==
  { Request(st, <<>>, Undefined, Undefined, p, ds, vs, NoShipment, <<>>, Undefined,
            DigitizerUser) :
      st \in {AT_DIGITIZER, AT_VENDOR}, p \in {Undefined, "High"},
      ds \in {Undefined, "InProgress"}, vs \in {Undefined, "InProgress"} }

\* a team member names a digitizer for an order and passes on a sub-status
ReassignRequests ==
  { Request(AT_DIGITIZER, <<>>, d, Undefined, Undefined, "InProgress", Undefined, NoShipment,
            <<>>, Undefined, TeamUser) : d \in {"d1", "d2"} }

\* the order goes its regular way to the vendor
ToVendorRequests ==
  { Plain(AT_DIGITIZER, <<>>, "d1", Undefined, TeamUser),
    Plain(TEAM_REVIEW, <<>>, Undefined, Undefined, DigitizerUser),
    Plain(AT_VENDOR, <<>>, Undefined, "v1", TeamUser) }

ShipPayloads ==
  { [kind |-> "garbage", items |-> <<>>], [kind |-> "object", items |-> <<>>],
    Shipment(<<>>),
    Shipment(<< [name |-> "Mug", quantity |-> 1] >>),
    Shipment(<< [name |-> "Mug", quantity |-> 2] >>),
    Shipment(<< [name |-> "Mug", quantity |-> -1] >>),
    Shipment(<< [name |-> "Cap", quantity |-> 1] >>),
    Shipment(<< [name |-> "Mug", quantity |-> 1], [name |-> "Cap", quantity |-> 1] >>) }

\* shipment requests of a vendor
ShipRequests ==
  { Request(st, n, Undefined, Undefined, Undefined, Undefined, Undefined, sh, <<>>,
            Undefined, VendorUser) :
      st \in {AT_TEAM, AT_VENDOR, PARTIALLY_SHIPPED, OUT_FOR_DELIVERY},
      n \in {<<>>, <<"ok">>}, sh \in ShipPayloads }

\* requests that carry files
FileRequests ==
  { Request(st, <<>>, Undefined, Undefined, Undefined, Undefined, Undefined, NoShipment, f,
            ub, u) :
      st \in {AT_TEAM, AT_DIGITIZER, TEAM_REVIEW},
      f \in { <<"a.png">>, <<"a.png", "b.pdf">> },
      ub \in {Undefined, "Team"}, u \in {DigitizerUser} }

\* two team members send the same order to different digitizers
RaceRequests ==
  { Plain(AT_DIGITIZER, <<>>, "d1", Undefined, TeamUser),
    Plain(AT_DIGITIZER, <<>>, "d2", Undefined, TeamUser2) }

\* requests whose shipment payload makes the handler throw, with and without files
BrokenRequests ==
  { Request(st, <<>>, Undefined, Undefined, Undefined, Undefined, Undefined,
            [kind |-> k, items |-> <<>>], f, Undefined, VendorUser) :
      st \in {AT_TEAM, AT_VENDOR}, k \in {"garbage", "object"}, f \in {<<>>, <<"a.png">>} }

UnknownOrderRequests ==
  { [Plain(AT_DIGITIZER, <<>>, "d1", Undefined, TeamUser) EXCEPT !.id = UnknownOrderId] }

NoteRequest(note, targetRole, user) ==
  [op |-> "addOrderNote", id |-> OrderId, note |-> note, targetRole |-> targetRole, user |-> user]

EditRequest(noteId, content, user) ==
  [op |-> "updateOrderNote", id |-> OrderId, noteId |-> noteId, content |-> content, user |-> user]

DeleteRequest(attachmentId, user) ==
  [op |-> "deleteOrderAttachment", id |-> OrderId, attachmentId |-> attachmentId, user |-> user]

Actors == {TeamUser, TeamUser2, DigitizerUser, VendorUser, AdminUser}

\* ids of notes and attachments a request may address: of the importer, of
\* slot 1, and one that no order has
ItemIds == { <<0, 1>>, <<1, 1>>, <<1, 2>>, <<9, 9>> }

\* the order goes to the digitizer and comes back with a file and a remark
EditFlowRequests ==
  { Plain(AT_DIGITIZER, <<>>, "d1", Undefined, TeamUser),
    Request(TEAM_REVIEW, <<"done">>, Undefined, Undefined, Undefined, Undefined, Undefined,
            NoShipment, <<"a.png">>, Undefined, DigitizerUser),
    Request(AT_TEAM, <<>>, Undefined, Undefined, Undefined, Undefined, Undefined,
            NoShipment, <<"b.pdf">>, "Team", VendorUser) }

NoteRequests ==
  { NoteRequest(<<"call me">>, Undefined, AdminUser),
    NoteRequest(<<"call me">>, "Vendor", VendorUser),
    NoteRequest(<<" ">>, Undefined, VendorUser),
    NoteRequest(<<>>, Undefined, VendorUser) }

EditRequests ==
  { EditRequest(i, <<"edited">>, u) : i \in ItemIds, u \in Actors }
  \cup { EditRequest(<<1, 1>>, <<>>, TeamUser) }

DeleteRequests ==
  { DeleteRequest(i, u) : i \in ItemIds, u \in Actors }

\* requests of the four handlers that may be under way together
RaceStatusRequests ==
  RaceRequests
  \cup { Plain(AT_VENDOR, <<>>, Undefined, "v1", TeamUser),
         Request(AT_TEAM, <<>>, Undefined, Undefined, Undefined, Undefined, Undefined,
                 NoShipment, <<"a.png">>, Undefined, DigitizerUser) }

RaceNoteRequests ==
  { NoteRequest(<<"call me">>, Undefined, TeamUser),
    NoteRequest(<<"on it">>, "Vendor", VendorUser) }

RaceEditRequests ==
  { EditRequest(<<1, 1>>, <<"edited">>, TeamUser),
    EditRequest(<<1, 1>>, <<"edited again">>, AdminUser) }

RaceDeleteRequests ==
  { DeleteRequest(<<1, 1>>, TeamUser), DeleteRequest(<<1, 1>>, DigitizerUser) }

\* order ids of the feed (shopifyOrder.id) that the import runs meet
SourceIds == {71, 72}

\* what a run gets from the paginated fetch: no record, one, two, or one twice
SyncFeeds == { <<>>, <<71>>, <<72>>, <<71, 72>>, <<71, 71>> }

SyncRequest(feed) == [op |-> "syncShopifyOrders", id |-> <<>>, feed |-> feed]

\* the same requests for an order id that is not stored
UnknownOrderNote ==
  [NoteRequest(<<"call me">>, Undefined, TeamUser) EXCEPT !.id = UnknownOrderId]

UnknownOrderEdit ==
  [EditRequest(<<1, 1>>, <<"edited">>, TeamUser) EXCEPT !.id = UnknownOrderId]

UnknownOrderDelete ==
  [DeleteRequest(<<1, 1>>, TeamUser) EXCEPT !.id = UnknownOrderId]

\* ------------------------------------------------------------------- bounds
IsShipmentNote(n) ==
  Len(n.content) > 0 /\ n.content[1] \in {"Order fully shipped", "Order partially shipped"}

ShipmentNotes(order) ==
  Cardinality({i \in DOMAIN order.notes : IsShipmentNote(order.notes[i])})

RequestNotes(order) ==
  Cardinality({i \in DOMAIN order.notes :
                 order.notes[i].authorRole # "System" /\ ~IsShipmentNote(order.notes[i])})

UploadedCount(order) ==
  Cardinality({i \in DOMAIN order.attachments : ~order.attachments[i].fromShopify})

\* the request is admitted: an order it changes stays within the bounds of the model
Admit(q) ==
  (/\ q.id \in DOMAIN orders
   /\ ~IsNoOp(q, orders[q.id])
   /\ TransitionAllowed(orders[q.id].status, q.status, q.note)
   /\ ~MutationThrows(q))
  => LET after == Mutate(1, orders[q.id], q, orders[q.id].status) IN
       /\ RequestNotes(after) <= MaxNotes
       /\ ShipmentNotes(after) <= MaxShipments
       /\ UploadedCount(after) + Len(q.files) <= MaxAttachments

\* the note request is admitted: the order stays within the bounds of the model
AdmitNote(q) ==
  (q.id \in DOMAIN orders /\ Len(q.note) > 0) => RequestNotes(orders[q.id]) < MaxNotes

\* ------------------------------------------------------------------ actions
\* what the importer reads of a stored order (getNextOrderId, the dedup query)
CreatedEntry(id, shopifyOrderId, createdAt) ==
  [id |-> id, shopifyOrderId |-> shopifyOrderId, createdAt |-> createdAt]

\* a slot that has loaded a document and not yet answered
InFlight(s) == pc[s] \notin {"idle", "done"}

\* a save by slot r increments __v of order id: every other loaded copy is out of date
MarkStale(r, id) ==
  [s \in Slots |-> IF s # r /\ InFlight(s) /\ req[s].id = id THEN TRUE ELSE stale[s]]

Init ==
  /\ orders = [id \in {OrderId} |->
                 ImportedOrder(FeedLineItems(Feed), FeedProductName(Feed), <<ShopifyAttachment>>)]
  /\ pc = [r \in Slots |-> "idle"]
  /\ req = [r \in Slots |-> NoReq]
  /\ cur = [r \in Slots |-> Undefined]
  /\ loaded = [r \in Slots |-> NoDoc]
  /\ doc = [r \in Slots |-> NoDoc]
  /\ upl = [r \in Slots |-> 0]
  /\ res = [r \in Slots |-> 0]
  /\ stale = [r \in Slots |-> FALSE]
  /\ created = <<CreatedEntry(OrderId, toString(70), 0)>>

\* orders as the importer stores them: one or two line items, or an order of
\* the earlier importer that has a productName and no lineItems
ShipFeeds ==
  { << [name |-> "Mug", quantity |-> 2] >>,
    << [name |-> "Mug", quantity |-> 1], [name |-> "Cap", quantity |-> 1] >> }

InitShip ==
  /\ \E feed \in ShipFeeds, legacy \in BOOLEAN :
       orders = [id \in {OrderId} |->
                   ImportedOrder(IF legacy THEN <<>> ELSE FeedLineItems(feed),
                                 FeedProductName(feed), <<ShopifyAttachment>>)]
  /\ pc = [r \in Slots |-> "idle"]
  /\ req = [r \in Slots |-> NoReq]
  /\ cur = [r \in Slots |-> Undefined]
  /\ loaded = [r \in Slots |-> NoDoc]
  /\ doc = [r \in Slots |-> NoDoc]
  /\ upl = [r \in Slots |-> 0]
  /\ res = [r \in Slots |-> 0]
  /\ stale = [r \in Slots |-> FALSE]
  /\ created = <<CreatedEntry(OrderId, toString(70), 0)>>

\* the handler answers with an error status: nothing is saved
Fail(r, code) ==
  /\ pc' = [pc EXCEPT ![r] = "done"]
  /\ res' = [res EXCEPT ![r] = code]
  /\ doc' = [doc EXCEPT ![r] = NoDoc]
  /\ UNCHANGED <<orders, stale, created>>

\* lines 259-322: findOne, the no-op guard, the transition check, associatedUsers
Load(r, q) ==
  /\ pc[r] = "idle"
  /\ Admit(q)
  /\ req' = [req EXCEPT ![r] = q]
  /\ upl' = [upl EXCEPT ![r] = 0]
  /\ IF q.id \notin DOMAIN orders
       THEN /\ cur' = [cur EXCEPT ![r] = Undefined]
            /\ loaded' = [loaded EXCEPT ![r] = NoDoc]
            /\ Fail(r, 404)
       ELSE LET order == orders[q.id] IN
            /\ cur' = [cur EXCEPT ![r] = order.status]
            /\ loaded' = [loaded EXCEPT ![r] = order]
            /\ IF IsNoOp(q, order) \/ ~TransitionAllowed(order.status, q.status, q.note)
                 THEN Fail(r, 409)
                 ELSE /\ pc' = [pc EXCEPT ![r] = IF Len(q.files) > 0 THEN "upload" ELSE "apply"]
                      /\ res' = [res EXCEPT ![r] = 0]
                      /\ doc' = [doc EXCEPT ![r] = Associate(order, q.user)]
                      /\ UNCHANGED <<orders, stale, created>>

\* lines 327-338: streamUpload resolves for the next file
Upload(r) ==
  /\ pc[r] = "upload"
  /\ LET file == req[r].files[upl[r] + 1] IN
       doc' = [doc EXCEPT ![r].attachments = Append(@, NewAttachment(r, doc[r], req[r], file))]
  /\ upl' = [upl EXCEPT ![r] = @ + 1]
  /\ pc' = [pc EXCEPT ![r] = IF upl[r] + 1 = Len(req[r].files) THEN "apply" ELSE "upload"]
  /\ UNCHANGED <<orders, req, cur, loaded, res, stale, created>>

\* variant of UploadFail: the files uploaded so far are saved before answering
UploadFailKeepsFiles(r) ==
  /\ pc[r] = "upload"
  /\ pc' = [pc EXCEPT ![r] = "done"]
  /\ res' = [res EXCEPT ![r] = 500]
  /\ orders' = [orders EXCEPT ![req[r].id].attachments = doc[r].attachments]
  /\ doc' = [doc EXCEPT ![r] = NoDoc]
  /\ UNCHANGED <<req, cur, loaded, upl, stale, created>>

\* lines 339-342: streamUpload rejects for the next file
UploadFail(r) ==
  /\ pc[r] = "upload"
  /\ Fail(r, 500)
  /\ UNCHANGED <<req, cur, loaded, upl>>

\* variant of Apply: the catch block saves the document as it is
ApplySavesOnThrow(r) ==
  /\ pc[r] = "apply"
  /\ IF MutationThrows(req[r])
       THEN /\ pc' = [pc EXCEPT ![r] = "done"]
            /\ res' = [res EXCEPT ![r] = 500]
            /\ orders' = [orders EXCEPT ![req[r].id] = Persist(@, loaded[r], doc[r])]
            /\ doc' = [doc EXCEPT ![r] = NoDoc]
            /\ UNCHANGED <<stale, created>>
       ELSE /\ doc' = [doc EXCEPT ![r] = Mutate(r, doc[r], req[r], cur[r])]
            /\ pc' = [pc EXCEPT ![r] = "save"]
            /\ UNCHANGED <<orders, res, stale, created>>
  /\ UNCHANGED <<req, cur, loaded, upl>>

\* lines 345-458: the synchronous mutation of the document; a throw goes to
\* the catch block (lines 463-466)
Apply(r) ==
  /\ pc[r] = "apply"
  /\ IF MutationThrows(req[r])
       THEN Fail(r, 500)
       ELSE /\ doc' = [doc EXCEPT ![r] = Mutate(r, doc[r], req[r], cur[r])]
            /\ pc' = [pc EXCEPT ![r] = "save"]
            /\ UNCHANGED <<orders, res, stale, created>>
  /\ UNCHANGED <<req, cur, loaded, upl>>

\* variant of Save: the update carries no version condition, so the copy
\* loaded before another writer's save is written all the same
SaveUnversioned(r) ==
  /\ pc[r] = "save"
  /\ orders' = [orders EXCEPT ![req[r].id] = Persist(@, loaded[r], doc[r])]
  /\ pc' = [pc EXCEPT ![r] = "done"]
  /\ res' = [res EXCEPT ![r] = 200]
  /\ doc' = [doc EXCEPT ![r] = NoDoc]
  /\ stale' = MarkStale(r, req[r].id)
  /\ UNCHANGED <<req, cur, loaded, upl, created>>

\* lines 455-461: order.save() resolves.  lineItems is marked modified and so
\* is written as a whole array: the update carries the loaded __v as a
\* condition and matches only while no other save has incremented it
Save(r) ==
  /\ pc[r] = "save"
  /\ ~stale[r]
  /\ orders' = [orders EXCEPT ![req[r].id] = Persist(@, loaded[r], doc[r])]
  /\ pc' = [pc EXCEPT ![r] = "done"]
  /\ res' = [res EXCEPT ![r] = 200]
  /\ doc' = [doc EXCEPT ![r] = NoDoc]
  /\ stale' = MarkStale(r, req[r].id)
  /\ UNCHANGED <<req, cur, loaded, upl, created>>

\* the await order.save() of the four handlers
SavePoints == {"save", "saveNote", "saveEdit", "saveDelete"}

\* the saves that write a whole array (markModified without a push, or an
\* assigned array): their update carries the loaded __v as a condition
VersionedSavePoints == {"save", "saveEdit", "saveDelete"}

\* lines 460, 463-466: order.save() rejects (the store is unavailable)
SaveFail(r) ==
  /\ pc[r] \in SavePoints
  /\ Fail(r, 500)
  /\ UNCHANGED <<req, cur, loaded, upl>>

\* lines 460, 463-466: order.save() rejects because the stored __v is no
\* longer the loaded one (no document matches the update: VersionError)
VersionError(r) ==
  /\ pc[r] \in VersionedSavePoints
  /\ stale[r]
  /\ Fail(r, 500)
  /\ UNCHANGED <<req, cur, loaded, upl>>

\* the response has been sent and the handler has returned
Finish(r) ==
  /\ pc[r] = "done"
  /\ pc' = [pc EXCEPT ![r] = "idle"]
  /\ req' = [req EXCEPT ![r] = NoReq]
  /\ cur' = [cur EXCEPT ![r] = Undefined]
  /\ loaded' = [loaded EXCEPT ![r] = NoDoc]
  /\ upl' = [upl EXCEPT ![r] = 0]
  /\ res' = [res EXCEPT ![r] = 0]
  /\ stale' = [stale EXCEPT ![r] = FALSE]
  /\ UNCHANGED <<orders, doc, created>>

\* ---------------------------------------------------------- addOrderNote
\* lines 469-505: the content check, findOne, the pushes
AddNoteLoad(r, q) ==
  /\ pc[r] = "idle"
  /\ AdmitNote(q)
  /\ req' = [req EXCEPT ![r] = q]
  /\ upl' = [upl EXCEPT ![r] = 0]
  /\ cur' = [cur EXCEPT ![r] = Undefined]
  /\ IF Len(q.note) = 0
       THEN /\ loaded' = [loaded EXCEPT ![r] = NoDoc]
            /\ Fail(r, 400)
       ELSE IF q.id \notin DOMAIN orders
       THEN /\ loaded' = [loaded EXCEPT ![r] = NoDoc]
            /\ Fail(r, 404)
       ELSE /\ loaded' = [loaded EXCEPT ![r] = orders[q.id]]
            /\ doc' = [doc EXCEPT ![r] = PushNote(r, orders[q.id], q)]
            /\ pc' = [pc EXCEPT ![r] = "saveNote"]
            /\ res' = [res EXCEPT ![r] = 0]
            /\ UNCHANGED <<orders, stale, created>>

\* lines 505-507: order.save() resolves; the update has no version condition
AddNoteSave(r) ==
  /\ pc[r] = "saveNote"
  /\ orders' = [orders EXCEPT ![req[r].id] = PersistPush(@, loaded[r], doc[r])]
  /\ pc' = [pc EXCEPT ![r] = "done"]
  /\ res' = [res EXCEPT ![r] = 200]
  /\ doc' = [doc EXCEPT ![r] = NoDoc]
  /\ stale' = MarkStale(r, req[r].id)
  /\ UNCHANGED <<req, cur, loaded, upl, created>>

\* -------------------------------------------------------- updateOrderNote
\* lines 513-541: the content check, findOne, findIndex, canEdit, the edit
EditLoad(r, q) ==
  /\ pc[r] = "idle"
  /\ req' = [req EXCEPT ![r] = q]
  /\ upl' = [upl EXCEPT ![r] = 0]
  /\ cur' = [cur EXCEPT ![r] = Undefined]
  /\ IF Len(q.content) = 0
       THEN /\ loaded' = [loaded EXCEPT ![r] = NoDoc]
            /\ Fail(r, 400)
       ELSE IF q.id \notin DOMAIN orders
       THEN /\ loaded' = [loaded EXCEPT ![r] = NoDoc]
            /\ Fail(r, 404)
       ELSE LET order == orders[q.id]
                noteIndex == FindById(order.notes, q.noteId)
            IN /\ loaded' = [loaded EXCEPT ![r] = order]
               /\ IF noteIndex = 0 THEN Fail(r, 404)
                  ELSE IF ~canEdit(order.notes[noteIndex], q.user) THEN Fail(r, 403)
                  ELSE /\ doc' = [doc EXCEPT ![r] = EditNote(order, noteIndex, q.content)]
                       /\ pc' = [pc EXCEPT ![r] = "saveEdit"]
                       /\ res' = [res EXCEPT ![r] = 0]
                       /\ UNCHANGED <<orders, stale, created>>

\* lines 543-545: order.save() resolves; notes is written as a whole array
EditSave(r) ==
  /\ pc[r] = "saveEdit"
  /\ ~stale[r]
  /\ orders' = [orders EXCEPT ![req[r].id].notes = doc[r].notes]
  /\ pc' = [pc EXCEPT ![r] = "done"]
  /\ res' = [res EXCEPT ![r] = 200]
  /\ doc' = [doc EXCEPT ![r] = NoDoc]
  /\ stale' = MarkStale(r, req[r].id)
  /\ UNCHANGED <<req, cur, loaded, upl, created>>

\* -------------------------------------------------- deleteOrderAttachment
\* lines 552-574: findOne, find, the two permission checks, the filter
DeleteLoad(r, q) ==
  /\ pc[r] = "idle"
  /\ req' = [req EXCEPT ![r] = q]
  /\ upl' = [upl EXCEPT ![r] = 0]
  /\ cur' = [cur EXCEPT ![r] = Undefined]
  /\ IF q.id \notin DOMAIN orders
       THEN /\ loaded' = [loaded EXCEPT ![r] = NoDoc]
            /\ Fail(r, 404)
       ELSE LET order == orders[q.id]
                i == FindById(order.attachments, q.attachmentId)
            IN /\ loaded' = [loaded EXCEPT ![r] = order]
               /\ IF i = 0 THEN Fail(r, 404)
                  ELSE IF ~canDelete(order.attachments[i], q.user) THEN Fail(r, 403)
                  ELSE /\ doc' = [doc EXCEPT ![r] =
                                    [order EXCEPT !.attachments = FilterOutId(@, q.attachmentId)]]
                       /\ pc' = [pc EXCEPT ![r] = "saveDelete"]
                       /\ res' = [res EXCEPT ![r] = 0]
                       /\ UNCHANGED <<orders, stale, created>>

\* lines 575-576: order.save() resolves; attachments is written as a whole array
DeleteSave(r) ==
  /\ pc[r] = "saveDelete"
  /\ ~stale[r]
  /\ orders' = [orders EXCEPT ![req[r].id].attachments = doc[r].attachments]
  /\ pc' = [pc EXCEPT ![r] = "done"]
  /\ res' = [res EXCEPT ![r] = 200]
  /\ doc' = [doc EXCEPT ![r] = NoDoc]
  /\ stale' = MarkStale(r, req[r].id)
  /\ UNCHANGED <<req, cur, loaded, upl, created>>

\* one request at a time: status changes, sub-status and priority updates
Next ==
  \/ \E q \in RoutingRequests \cup SubStatusRequests \cup ReassignRequests : Load(1, q)
  \/ Apply(1)
  \/ Save(1)
  \/ SaveFail(1)
  \/ Finish(1)

Spec == Init /\ [][Next]_vars

\* one request at a time: the way to the vendor, then shipments
NextShip ==
  \/ \E q \in ToVendorRequests \cup ShipRequests : Load(1, q)
  \/ Apply(1)
  \/ Save(1)
  \/ SaveFail(1)
  \/ Finish(1)

SpecShip == InitShip /\ [][NextShip]_vars

\* one request at a time: requests with files, and every kind of failure
NextUpload ==
  \/ \E q \in FileRequests \cup ToVendorRequests \cup UnknownOrderRequests
                 \cup BrokenRequests : Load(1, q)
  \/ Upload(1)
  \/ UploadFail(1)
  \/ Apply(1)
  \/ Save(1)
  \/ SaveFail(1)
  \/ Finish(1)

SpecUpload == Init /\ [][NextUpload]_vars

\* one request at a time: notes are added and edited, files attached and deleted
NextEdit ==
  \/ \E q \in EditFlowRequests : Load(1, q)
  \/ Upload(1)
  \/ Apply(1)
  \/ Save(1)
  \/ \E q \in NoteRequests \cup {UnknownOrderNote} : AddNoteLoad(1, q)
  \/ AddNoteSave(1)
  \/ \E q \in EditRequests \cup {UnknownOrderEdit} : EditLoad(1, q)
  \/ EditSave(1)
  \/ \E q \in DeleteRequests \cup {UnknownOrderDelete} : DeleteLoad(1, q)
  \/ DeleteSave(1)
  \/ SaveFail(1)
  \/ Finish(1)

SpecEdit == Init /\ [][NextEdit]_vars

\* two requests at a time, their load / mutate / save steps interleaved
NextConc ==
  \E r \in Slots :
    \/ \E q \in RaceRequests : Load(r, q)
    \/ Apply(r)
    \/ Save(r)
    \/ VersionError(r)
    \/ Finish(r)

SpecConc == Init /\ [][NextConc]_vars

\* lines 324-338 for all files of a request
RECURSIVE UploadAll(_, _, _, _)
UploadAll(r, order, q, k) ==
  IF k > Len(q.files) THEN order
  ELSE UploadAll(r, [order EXCEPT !.attachments =
                       Append(@, NewAttachment(r, order, q, q.files[k]))], q, k + 1)

\* the stored order after a status request that is accepted has been served alone
Served(order, q) ==
  Persist(order, order, Mutate(1, UploadAll(1, Associate(order, q.user), q, 1), q, order.status))

\* orders as earlier requests leave them: as imported; sent to the digitizer;
\* returned for review with a file
RaceOrders ==
  LET imported == ImportedOrder(FeedLineItems(Feed), FeedProductName(Feed), <<ShopifyAttachment>>)
      sent == Served(imported, Plain(AT_DIGITIZER, <<>>, "d1", Undefined, TeamUser))
      returned == Served(sent, Request(TEAM_REVIEW, <<>>, Undefined, Undefined, Undefined,
                                       Undefined, Undefined, NoShipment, <<"a.png">>,
                                       Undefined, DigitizerUser))
  IN {imported, sent, returned}

InitRace ==
  /\ \E order \in RaceOrders : orders = [id \in {OrderId} |-> order]
  /\ pc = [r \in Slots |-> "idle"]
  /\ req = [r \in Slots |-> NoReq]
  /\ cur = [r \in Slots |-> Undefined]
  /\ loaded = [r \in Slots |-> NoDoc]
  /\ doc = [r \in Slots |-> NoDoc]
  /\ upl = [r \in Slots |-> 0]
  /\ res = [r \in Slots |-> 0]
  /\ stale = [r \in Slots |-> FALSE]
  /\ created = <<CreatedEntry(OrderId, toString(70), 0)>>

\* two requests of any of the four handlers, one per slot, their steps interleaved
NextRace ==
  \E r \in Slots :
    \/ \E q \in RaceStatusRequests : Load(r, q)
    \/ Upload(r)
    \/ Apply(r)
    \/ Save(r)
    \/ \E q \in RaceNoteRequests : AddNoteLoad(r, q)
    \/ AddNoteSave(r)
    \/ \E q \in RaceEditRequests : EditLoad(r, q)
    \/ EditSave(r)
    \/ \E q \in RaceDeleteRequests : DeleteLoad(r, q)
    \/ DeleteSave(r)
    \/ VersionError(r)

SpecRace == InitRace /\ [][NextRace]_vars

\* ------------------------------------------------------ syncShopifyOrders
\* lines 144-149: the records of the feed whose id is not among the stored
\* shopifyOrderId values
RECURSIVE newShopifyOrders(_, _)
newShopifyOrders(feed, existingIdsSet) ==
  IF Len(feed) = 0 THEN <<>>
  ELSE IF toString(Head(feed)) \in existingIdsSet
    THEN newShopifyOrders(Tail(feed), existingIdsSet)
    ELSE <<Head(feed)>> \o newShopifyOrders(Tail(feed), existingIdsSet)

\* the orders the runs of the model have added, and those they are about to add
ImportedCount ==
  Cardinality({i \in DOMAIN created :
                 created[i].shopifyOrderId \in {toString(x) : x \in SourceIds}})

PendingCount ==
  LET S == {r \in Slots : pc[r] \in {"syncId", "syncInsert"}}
      RECURSIVE Sum(_)
      Sum(T) == IF T = {} THEN 0
                ELSE LET r == CHOOSE x \in T : TRUE IN Len(doc[r].todo) + Sum(T \ {r})
  IN Sum(S)

\* lines 103-155: the fetch, the dedup query, the filter
SyncFind(r, feed) ==
  /\ pc[r] = "idle"
  /\ LET existingIdsSet == {created[i].shopifyOrderId : i \in DOMAIN created}
         todo == newShopifyOrders(feed, existingIdsSet)
     IN /\ ImportedCount + PendingCount + Len(todo) <= MaxImported
        /\ IF Len(todo) = 0
             THEN /\ pc' = [pc EXCEPT ![r] = "done"]
                  /\ res' = [res EXCEPT ![r] = 200]
                  /\ doc' = [doc EXCEPT ![r] = NoDoc]
             ELSE /\ pc' = [pc EXCEPT ![r] = "syncId"]
                  /\ res' = [res EXCEPT ![r] = 0]
                  /\ doc' = [doc EXCEPT ![r] = [todo |-> todo, id |-> <<>>]]
  /\ req' = [req EXCEPT ![r] = SyncRequest(feed)]
  /\ upl' = [upl EXCEPT ![r] = 0]
  /\ cur' = [cur EXCEPT ![r] = Undefined]
  /\ loaded' = [loaded EXCEPT ![r] = NoDoc]
  /\ UNCHANGED <<orders, stale, created>>

\* lines 8-13, 195: findOne().sort({ createdAt: -1 }) returns a stored order
\* with the latest createdAt, any of them when several have it
SyncNextId(r) ==
  /\ pc[r] = "syncId"
  /\ IF Len(created) = 0
       THEN doc' = [doc EXCEPT ![r].id = FormatOrderId(1)]
       ELSE \E i \in DOMAIN created :
              /\ \A j \in DOMAIN created : created[j].createdAt <= created[i].createdAt
              /\ doc' = [doc EXCEPT ![r].id = FormatOrderId(OrderIdNumber(created[i].id) + 1)]
  /\ pc' = [pc EXCEPT ![r] = "syncInsert"]
  /\ UNCHANGED <<orders, req, cur, loaded, upl, res, stale, created>>

\* createdAt of a save now: not before any stored createdAt
Now == {t \in 0 .. Len(created) :
          /\ \A j \in DOMAIN created : created[j].createdAt <= t
          /\ \E d \in {0, 1} : t = d + Max({0} \cup {created[j].createdAt : j \in DOMAIN created})}

\* variant of SyncInsert: the collection has no unique index on id
SyncInsertNoIndex(r) ==
  /\ pc[r] = "syncInsert"
  /\ \E t \in Now :
       created' = Append(created, CreatedEntry(doc[r].id, toString(Head(doc[r].todo)), t))
  /\ orders' = orders @@ (doc[r].id :> ImportedOrder(FeedLineItems(Feed), FeedProductName(Feed), <<>>))
  /\ upl' = [upl EXCEPT ![r] = @ + 1]
  /\ IF Len(doc[r].todo) = 1
       THEN /\ pc' = [pc EXCEPT ![r] = "done"]
            /\ res' = [res EXCEPT ![r] = 201]
            /\ doc' = [doc EXCEPT ![r] = NoDoc]
       ELSE /\ pc' = [pc EXCEPT ![r] = "syncId"]
            /\ res' = res
            /\ doc' = [doc EXCEPT ![r].todo = Tail(@), ![r].id = <<>>]
  /\ UNCHANGED <<req, cur, loaded, stale>>

\* lines 194-237: newOrder.save().  id is declared unique in orderSchema: the
\* insert of an id that is stored already fails, and the catch block answers
\* 500 (line 254) with the rest of the feed not imported
SyncInsert(r) ==
  /\ pc[r] = "syncInsert"
  /\ IF \E i \in DOMAIN created : created[i].id = doc[r].id
       THEN /\ Fail(r, 500)
            /\ upl' = upl
       ELSE /\ \E t \in Now :
                 created' = Append(created, CreatedEntry(doc[r].id, toString(Head(doc[r].todo)), t))
            /\ orders' = orders @@ (doc[r].id :> ImportedOrder(FeedLineItems(Feed), FeedProductName(Feed), <<>>))
            /\ upl' = [upl EXCEPT ![r] = @ + 1]
            /\ stale' = stale
            /\ IF Len(doc[r].todo) = 1
                 THEN /\ pc' = [pc EXCEPT ![r] = "done"]
                      /\ res' = [res EXCEPT ![r] = 201]
                      /\ doc' = [doc EXCEPT ![r] = NoDoc]
                 ELSE /\ pc' = [pc EXCEPT ![r] = "syncId"]
                      /\ res' = res
                      /\ doc' = [doc EXCEPT ![r].todo = Tail(@), ![r].id = <<>>]
  /\ UNCHANGED <<req, cur, loaded>>

\* the collection before the runs: empty, or with one imported order
InitImport ==
  /\ \E empty \in BOOLEAN :
       IF empty
         THEN /\ orders = [id \in {} |-> NoDoc]
              /\ created = <<>>
         ELSE /\ orders = [id \in {OrderId} |->
                             ImportedOrder(FeedLineItems(Feed), FeedProductName(Feed), <<>>)]
              /\ created = <<CreatedEntry(OrderId, toString(70), 0)>>
  /\ pc = [r \in Slots |-> "idle"]
  /\ req = [r \in Slots |-> NoReq]
  /\ cur = [r \in Slots |-> Undefined]
  /\ loaded = [r \in Slots |-> NoDoc]
  /\ doc = [r \in Slots |-> NoDoc]
  /\ upl = [r \in Slots |-> 0]
  /\ res = [r \in Slots |-> 0]
  /\ stale = [r \in Slots |-> FALSE]

\* two import runs at a time, their queries and inserts interleaved
NextImport ==
  \E r \in Slots :
    \/ \E feed \in SyncFeeds : SyncFind(r, feed)
    \/ SyncNextId(r)
    \/ SyncInsert(r)
    \/ Finish(r)

SpecImport == InitImport /\ [][NextImport]_vars

\* ================================================================== claims
Found(r) == pc[r] # "idle" /\ loaded[r] # NoDoc

Rejected(r, code) == pc[r] = "done" /\ res[r] = code

Stored(r) == orders[req[r].id]

Prefixed(note) == Len(note) > 0 /\ note[1] = "Team rejected:"

\* the allowed-predecessor table of the specification, keyed by target
InTable(from, to) ==
  \/ to = "At Digitizer" /\ from \in {"At Team", "Team Review"}
  \/ to = "Team Review" /\ from = "At Digitizer"
  \/ to = "At Vendor" /\ from \in {"Team Review", "Partially Shipped"}
  \/ to = "Partially Shipped" /\ from \in {"At Vendor", "Partially Shipped", "Out for Delivery"}
  \/ to = "Out for Delivery" /\ from \in {"At Vendor", "Partially Shipped"}

\* C1: a request whose (current status, target status) pair is not in the
\* allowed-predecessor table, targets without a row included, is answered 409
\* and the stored order stays as it was loaded.
C1_IllegalPairIsConflict ==
  \A r \in Slots :
    (Found(r) /\ loaded[r].status # req[r].status
       /\ ~InTable(loaded[r].status, req[r].status))
    => (Rejected(r, 409) /\ Stored(r) = loaded[r])

\* C2: every change of a stored status is a pair of the allowed-predecessor
\* table, also when the status computed from a shipment replaces the target.
C2_StatusChangesInTable ==
  [][\A id \in DOMAIN orders :
       orders'[id].status # orders[id].status
         => InTable(orders[id].status, orders'[id].status)]_vars

\* C3: a request with the current status as target, no digitizer
\* reassignment, no differing sub-status or priority, no shipment entries and
\* no files is answered 409 and the stored order stays as it was loaded.
C3_NoChangeRequest(q, order) ==
  /\ q.status = order.status
  /\ ~(order.status = "At Digitizer" /\ q.digitizerId \notin {Undefined, order.digitizerId})
  /\ q.digitizerStatus \in {Undefined, order.digitizerStatus}
  /\ q.vendorStatus \in {Undefined, order.vendorStatus}
  /\ q.priority \in {Undefined, order.priority}
  /\ q.shippedItems.kind = "absent"
  /\ Len(q.files) = 0

C3_NoOpIsConflict ==
  \A r \in Slots :
    (Found(r) /\ C3_NoChangeRequest(req[r], loaded[r]))
    => (Rejected(r, 409) /\ Stored(r) = loaded[r])

\* a note-only request on an order in review was answered 409
C3_Witness ==
  \E r \in Slots :
    /\ Found(r) /\ C3_NoChangeRequest(req[r], loaded[r])
    /\ loaded[r].status = "Team Review" /\ Len(req[r].note) > 0
    /\ Rejected(r, 409)

\* C4: a request that targets 'At Digitizer' from another status passes the
\* transition check exactly when it comes from 'Team Review' with a note that
\* begins with "Team rejected:" or from 'At Team' with a note that does not;
\* every other request of that kind is answered 409.
C4_DigitizerEntry ==
  \A r \in Slots :
    (Found(r) /\ req[r].status = "At Digitizer" /\ loaded[r].status # "At Digitizer")
    => (Rejected(r, 409)
          <=> ~(\/ loaded[r].status = "Team Review" /\ Prefixed(req[r].note)
                \/ loaded[r].status = "At Team" /\ ~Prefixed(req[r].note)))

\* a rejection by the team brought the order back from review to the digitizer
C4_Witness ==
  \E r \in Slots :
    /\ Found(r) /\ req[r].status = "At Digitizer" /\ Prefixed(req[r].note)
    /\ loaded[r].status = "Team Review"
    /\ Rejected(r, 200) /\ Stored(r).status = "At Digitizer"

\* C5: every line item of every stored order has 0 <= shippedQuantity <= quantity.
C5_ShippedWithinQuantity ==
  \A id \in DOMAIN orders : \A i \in DOMAIN orders[id].lineItems :
    /\ 0 <= orders[id].lineItems[i].shippedQuantity
    /\ orders[id].lineItems[i].shippedQuantity <= orders[id].lineItems[i].quantity

\* C6: a shipment with a negative entry, or one that takes a line item beyond
\* its quantity, does not succeed and leaves the line items as they were.
C6_BadShipment(q, order) ==
  /\ q.shippedItems.kind = "array"
  /\ \E k \in DOMAIN q.shippedItems.items :
       LET e == q.shippedItems.items[k] IN
         \E i \in DOMAIN order.lineItems :
           /\ order.lineItems[i].name = e.name
           /\ \/ e.quantity < 0
              \/ order.lineItems[i].shippedQuantity + e.quantity > order.lineItems[i].quantity

C6_BadShipmentFails ==
  \A r \in Slots :
    (pc[r] = "done" /\ loaded[r] # NoDoc /\ C6_BadShipment(req[r], loaded[r]))
    => (res[r] # 200 /\ Stored(r).lineItems = loaded[r].lineItems)

\* C7: after a successful request with shipment entries the stored status is
\* 'Out for Delivery' if every line item has shippedQuantity >= quantity and
\* 'Partially Shipped' otherwise, whatever target the caller supplied.
C7_ShipmentDecidesStatus ==
  \A r \in Slots :
    (Rejected(r, 200) /\ req[r].shippedItems.kind # "absent")
    => Stored(r).status =
         IF \A i \in DOMAIN Stored(r).lineItems :
              Stored(r).lineItems[i].shippedQuantity >= Stored(r).lineItems[i].quantity
           THEN "Out for Delivery" ELSE "Partially Shipped"

\* the second of two shipments of one Mug each completed a line of two, on a
\* request whose own target was 'At Vendor'
C7_Witness ==
  \E r \in Slots :
    /\ Rejected(r, 200)
    /\ req[r].shippedItems = Shipment(<< [name |-> "Mug", quantity |-> 1] >>)
    /\ req[r].status = "At Vendor"
    /\ loaded[r].status = "Partially Shipped"
    /\ Len(loaded[r].lineItems) = 1
    /\ loaded[r].lineItems[1] = [name |-> "Mug", quantity |-> 2, shippedQuantity |-> 1]
    /\ Stored(r).lineItems[1].shippedQuantity = 2
    /\ Stored(r).status = "Out for Delivery"

\* C8: a step in which a request is answered with a failure status (404, 409,
\* 500) leaves the orders collection as it was.
C8_FailureKeepsStore ==
  [][\A r \in Slots :
       (pc[r] # "done" /\ pc'[r] = "done" /\ res'[r] # 200) => orders' = orders]_vars

\* a request whose shipment payload made the handler throw, after one file was
\* uploaded, was answered 500 and the stored order is as loaded
C8_Witness ==
  \E r \in Slots :
    /\ Rejected(r, 500) /\ loaded[r] # NoDoc
    /\ req[r].shippedItems.kind \in {"garbage", "object"}
    /\ upl[r] = 1
    /\ Stored(r) = loaded[r]

\* C9: when an upload fails, also after earlier files of the request were
\* uploaded, the request fails and the stored order is as it was loaded: no
\* attachment of the request, no status, note or associated user is kept.
C9_UploadFailureKeepsOrder ==
  \A r \in Slots :
    (pc[r] = "done" /\ loaded[r] # NoDoc /\ upl[r] < Len(req[r].files))
    => (res[r] # 200 /\ Stored(r) = loaded[r])

\* the second file of a request failed after the first was uploaded
C9_Witness ==
  \E r \in Slots :
    /\ Rejected(r, 500) /\ loaded[r] # NoDoc
    /\ Len(req[r].files) = 2 /\ upl[r] = 1
    /\ req[r].status # loaded[r].status
    /\ Stored(r) = loaded[r]

\* C10: of two requests that both loaded the order 'At Team' and send it to
\* different digitizers, exactly one is answered 200 and the other 409, and the
\* stored digitizerId is that of the one answered 200.
C10_Race ==
  /\ pc[1] = "done" /\ pc[2] = "done"
  /\ loaded[1] # NoDoc /\ loaded[2] # NoDoc
  /\ loaded[1].status = "At Team" /\ loaded[2].status = "At Team"
  /\ req[1].status = "At Digitizer" /\ req[2].status = "At Digitizer"
  /\ req[1].digitizerId # Undefined /\ req[2].digitizerId # Undefined
  /\ req[1].digitizerId # req[2].digitizerId

C10_ExactlyOneWins ==
  C10_Race =>
    \E w \in Slots : \E l \in Slots \ {w} :
      /\ res[w] = 200 /\ res[l] = 409
      /\ orders[req[w].id].digitizerId = req[w].digitizerId

\* the request of slot r was for handler op and has been answered
Answered(r, op) == pc[r] = "done" /\ Op(req[r]) = op

\* the entry of items with the given id, where there is one
HasId(items, id) == \E i \in DOMAIN items : items[i].id = id

ById(items, id) == items[CHOOSE i \in DOMAIN items : items[i].id = id]

\* C14: an attachment with fromShopify = true is never removed: a delete
\* request that addresses it is answered 403 whatever the actor's role and
\* leaves the order as loaded, and no step of any handler takes an attachment
\* with fromShopify = true out of a stored order.
C14_ShopifyAttachmentStays ==
  [][/\ \A id \in DOMAIN orders : \A i \in DOMAIN orders[id].attachments :
          orders[id].attachments[i].fromShopify
            => \E j \in DOMAIN orders'[id].attachments :
                 orders'[id].attachments[j] = orders[id].attachments[i]
     /\ \A r \in Slots :
          (pc'[r] = "done" /\ Op(req'[r]) = "deleteOrderAttachment" /\ loaded'[r] # NoDoc
             /\ HasId(loaded'[r].attachments, req'[r].attachmentId)
             /\ ById(loaded'[r].attachments, req'[r].attachmentId).fromShopify)
          => (res'[r] = 403 /\ orders'[req'[r].id] = loaded'[r])]_vars

\* an admin asked to delete the attachment that came from Shopify and was refused
C14_Witness ==
  \E r \in Slots :
    /\ Answered(r, "deleteOrderAttachment") /\ loaded[r] # NoDoc
    /\ req[r].user.role = "Admin"
    /\ HasId(loaded[r].attachments, req[r].attachmentId)
    /\ ById(loaded[r].attachments, req[r].attachmentId).fromShopify
    /\ res[r] = 403
    /\ HasId(Stored(r).attachments, req[r].attachmentId)

\* C15: a delete request for an attachment that is not fromShopify removes
\* exactly that attachment when the actor's role is Team or Admin or equals
\* the attachment's uploadedBy (the store permitting: a failed save is answered
\* 500 and removes nothing); otherwise it is answered 403 and the order stays
\* as loaded; an unknown order id or attachment id is answered 404.
C15_DeleteDecision ==
  \A r \in Slots :
    Answered(r, "deleteOrderAttachment") =>
      IF loaded[r] = NoDoc THEN res[r] = 404
      ELSE IF ~HasId(loaded[r].attachments, req[r].attachmentId)
        THEN res[r] = 404 /\ Stored(r) = loaded[r]
      ELSE LET a == ById(loaded[r].attachments, req[r].attachmentId)
               Kept(x) == x.id # req[r].attachmentId
           IN a.fromShopify
              \/ IF req[r].user.role \in {"Team", "Admin"} \/ req[r].user.role = a.uploadedBy
                   THEN \/ /\ res[r] = 200
                           /\ Stored(r) = [loaded[r] EXCEPT
                                             !.attachments = SelectSeq(@, Kept)]
                        \/ res[r] = 500 /\ Stored(r) = loaded[r]
                   ELSE res[r] = 403 /\ Stored(r) = loaded[r]

\* a digitizer deleted the file they had uploaded themselves
C15_Witness ==
  \E r \in Slots :
    /\ Answered(r, "deleteOrderAttachment") /\ loaded[r] # NoDoc
    /\ req[r].user.role = "Digitizer"
    /\ HasId(loaded[r].attachments, req[r].attachmentId)
    /\ ById(loaded[r].attachments, req[r].attachmentId).uploadedBy = "Digitizer"
    /\ res[r] = 200
    /\ ~HasId(Stored(r).attachments, req[r].attachmentId)

\* C16: an edit request with content changes the addressed note only if the
\* actor has the note's author name and role, or the actor's role is Team or
\* Admin and the note's authorRole is Team; every other edit request is
\* answered 403 and the order stays as loaded; an unknown note id is answered 404.
C16_EditDecision ==
  \A r \in Slots :
    (Answered(r, "updateOrderNote") /\ Len(req[r].content) > 0 /\ loaded[r] # NoDoc) =>
      IF ~HasId(loaded[r].notes, req[r].noteId)
        THEN res[r] = 404 /\ Stored(r) = loaded[r]
      ELSE LET n == ById(loaded[r].notes, req[r].noteId)
               u == req[r].user
           IN IF \/ (n.authorName = u.name /\ n.authorRole = u.role)
                 \/ (u.role \in {"Team", "Admin"} /\ n.authorRole = "Team")
                THEN \/ /\ res[r] = 200
                        /\ ById(Stored(r).notes, req[r].noteId).content = req[r].content
                        /\ ById(Stored(r).notes, req[r].noteId).isEdited
                     \/ res[r] = 500 /\ Stored(r) = loaded[r]
                ELSE res[r] = 403 /\ Stored(r) = loaded[r]

\* a vendor asked to edit a note written by the digitizer and was refused
C16_Witness ==
  \E r \in Slots :
    /\ Answered(r, "updateOrderNote") /\ loaded[r] # NoDoc
    /\ req[r].user.role = "Vendor"
    /\ HasId(loaded[r].notes, req[r].noteId)
    /\ ById(loaded[r].notes, req[r].noteId).authorRole = "Digitizer"
    /\ res[r] = 403
    /\ Stored(r) = loaded[r]

\* C18: every note of every stored order has non-empty content; a note
\* request or an edit request with empty content is answered 400 in a step
\* that leaves the orders as they were.
C18_NotesHaveContent ==
  [][/\ \A id \in DOMAIN orders' : \A i \in DOMAIN orders'[id].notes :
          Len(orders'[id].notes[i].content) > 0
     /\ \A r \in Slots :
          (pc[r] = "idle" /\ pc'[r] = "done"
             /\ \/ Op(req'[r]) = "addOrderNote" /\ Len(req'[r].note) = 0
                \/ Op(req'[r]) = "updateOrderNote" /\ Len(req'[r].content) = 0)
          => (res'[r] = 400 /\ orders' = orders)]_vars

\* a note request without content was answered 400, on an order to which a
\* status request had added no note because its composed content was empty
C18_Witness ==
  \E r \in Slots :
    /\ Answered(r, "addOrderNote") /\ Len(req[r].note) = 0 /\ res[r] = 400
    /\ orders[OrderId].status = "At Team"
    /\ Len(orders[OrderId].attachments) = 2
    /\ \A i \in DOMAIN orders[OrderId].notes : Len(orders[OrderId].notes[i].content) > 0

\* C19: the status of every stored order is one of the six values of the
\* enumeration; no request stores any other value.
C19_StatusInEnumeration ==
  \A id \in DOMAIN orders :
    orders[id].status \in {"At Team", "At Digitizer", "Team Review", "At Vendor",
                            "Partially Shipped", "Out for Delivery"}

\* C20: once the stored status of an order is 'Out for Delivery', no request
\* changes it to another status.
C20_OutForDeliveryIsTerminal ==
  [][\A id \in DOMAIN orders :
       orders[id].status = "Out for Delivery" => orders'[id].status = "Out for Delivery"]_vars

\* the ids of the entries of a sequence
Ids(items) == {items[i].id : i \in DOMAIN items}

\* C11: no lost update.  In the step in which a request is answered 200, the
\* notes and attachments it added to its copy are in the stored order; and
\* no step of any request takes a note out of a stored order, or an
\* attachment other than the one a delete request addresses, so what one
\* successful request added is never dropped by another that read an older copy.
C11_NoLostUpdate ==
  [][/\ \A r \in Slots :
          (pc[r] # "done" /\ pc'[r] = "done" /\ res'[r] = 200)
          => /\ Ids(doc[r].notes) \ Ids(loaded[r].notes) \subseteq Ids(orders'[req[r].id].notes)
             /\ Ids(doc[r].attachments) \ Ids(loaded[r].attachments)
                  \subseteq Ids(orders'[req[r].id].attachments)
     /\ \A id \in DOMAIN orders :
          /\ Ids(orders[id].notes) \subseteq Ids(orders'[id].notes)
          /\ \A a \in Ids(orders[id].attachments) \ Ids(orders'[id].attachments) :
               \E r \in Slots :
                 /\ pc[r] = "saveDelete" /\ pc'[r] = "done" /\ res'[r] = 200
                 /\ req[r].id = id /\ req[r].attachmentId = a]_vars

\* a status request and a note request read the same copy of the order, both
\* were answered 200, and the stored order has the notes of both
C11_Witness ==
  /\ Answered(1, "updateOrderStatus") /\ Answered(2, "addOrderNote")
  /\ res[1] = 200 /\ res[2] = 200
  /\ loaded[1] = loaded[2]
  /\ \E a \in Ids(orders[OrderId].notes) \ Ids(loaded[1].notes) : a[1] = 1
  /\ \E b \in Ids(orders[OrderId].notes) \ Ids(loaded[2].notes) : b[1] = 2

\* C17: associatedUsers of a stored order never has two entries with the
\* same user id.
C17_AssociatedUsersDistinct ==
  \A id \in DOMAIN orders :
    \A i, j \in DOMAIN orders[id].associatedUsers :
      orders[id].associatedUsers[i].id = orders[id].associatedUsers[j].id => i = j

\* the number an order id ends in, read from its three digits
Suffix(id) == 100 * id[2] + 10 * id[3] + id[4]

\* C12: no two stored orders have the same id, and every order that is
\* stored gets the id ORD-(highest stored suffix + 1), ORD-001 into an empty
\* collection, whether one import run inserts or two runs interleave their
\* id reads and inserts.
C12_OrderIdsUniqueIncreasing ==
  [][/\ \A i, j \in DOMAIN created' : created'[i].id = created'[j].id => i = j
     /\ Len(created') > Len(created)
          => /\ Len(created') = Len(created) + 1
             /\ SubSeq(created', 1, Len(created)) = created
             /\ LET id == created'[Len(created')].id IN
                  /\ Len(id) = 4 /\ id[1] = "ORD-"
                  /\ Suffix(id) = 1 + Max({0} \cup {Suffix(created[i].id) : i \in DOMAIN created})]_vars

\* two runs had read the same next id; one stored its order under it, the
\* other run's insert was refused and the run answered 500
C12_Witness ==
  \E r \in Slots : \E s \in Slots \ {r} :
    /\ Answered(r, "syncShopifyOrders") /\ res[r] = 500
    /\ Op(req[s]) = "syncShopifyOrders" /\ upl[s] > 0
    /\ Len(created) >= 2
    /\ \A i, j \in DOMAIN created : created[i].id = created[j].id => i = j

\* C13: no two stored orders have the same shopifyOrderId.
C13_SourceIdsDistinct ==
  \A i, j \in DOMAIN created :
    created[i].shopifyOrderId = created[j].shopifyOrderId => i = j

\* the value a field has after a request that may supply it
Supplied(value, before) == IF value # Undefined THEN value ELSE before

\* C21: after a successful request that brings the order to 'At Digitizer'
\* from another status the stored digitizerStatus is 'Pending', and after one
\* that brings it to 'At Vendor' from another status the stored vendorStatus
\* is 'Pending', whatever sub-status the request supplies; after a successful
\* request whose target is the current status both sub-statuses are what the
\* request supplies, or else what they were.
C21_SubStatusReset ==
  \A r \in Slots :
    (Answered(r, "updateOrderStatus") /\ res[r] = 200) =>
      /\ (req[r].status = "At Digitizer" /\ loaded[r].status # "At Digitizer"
            /\ Stored(r).status = "At Digitizer")
         => Stored(r).digitizerStatus = "Pending"
      /\ (req[r].status = "At Vendor" /\ loaded[r].status # "At Vendor"
            /\ Stored(r).status = "At Vendor")
         => Stored(r).vendorStatus = "Pending"
      /\ req[r].status = loaded[r].status
         => /\ Stored(r).digitizerStatus = Supplied(req[r].digitizerStatus, loaded[r].digitizerStatus)
            /\ Stored(r).vendorStatus = Supplied(req[r].vendorStatus, loaded[r].vendorStatus)

\* an order 'At Team' was sent to the digitizer by a request that supplied
\* the sub-status 'InProgress'; the stored sub-status is 'Pending'
C21_Witness ==
  \E r \in Slots :
    /\ Answered(r, "updateOrderStatus") /\ res[r] = 200
    /\ req[r].status = "At Digitizer" /\ req[r].digitizerStatus = "InProgress"
    /\ loaded[r].status = "At Team"
    /\ Stored(r).status = "At Digitizer" /\ Stored(r).digitizerStatus = "Pending"

\* C24: a request for an order 'At Digitizer' with target 'At Digitizer' and
\* a digitizerId other than the stored one is not answered 409; when it is
\* answered 200 the stored digitizerId is the requested one, the status is
\* still 'At Digitizer' and digitizerStatus is not reset (it is what the
\* request supplies, or else what it was).  The same request with the stored
\* digitizerId and no other change is answered 409 and changes nothing.
C24_Reassignment ==
  \A r \in Slots :
    (Answered(r, "updateOrderStatus") /\ loaded[r] # NoDoc
       /\ loaded[r].status = "At Digitizer" /\ req[r].status = "At Digitizer"
       /\ req[r].digitizerId # Undefined) =>
      IF req[r].digitizerId # loaded[r].digitizerId
        THEN /\ res[r] # 409
             /\ res[r] = 200
                  => /\ Stored(r).digitizerId = req[r].digitizerId
                     /\ Stored(r).status = "At Digitizer"
                     /\ Stored(r).digitizerStatus
                          = Supplied(req[r].digitizerStatus, loaded[r].digitizerStatus)
             /\ res[r] # 200 => Stored(r) = loaded[r]
        ELSE (/\ req[r].digitizerStatus \in {Undefined, loaded[r].digitizerStatus}
              /\ req[r].vendorStatus \in {Undefined, loaded[r].vendorStatus}
              /\ req[r].priority \in {Undefined, loaded[r].priority}
              /\ req[r].shippedItems.kind = "absent"
              /\ Len(req[r].files) = 0)
             => (res[r] = 409 /\ Stored(r) = loaded[r])

\* an order with digitizer d1 was given to d2 by a request that supplied the
\* sub-status 'InProgress': the sub-status is stored as supplied
C24_Witness ==
  \E r \in Slots :
    /\ Answered(r, "updateOrderStatus") /\ res[r] = 200
    /\ loaded[r].status = "At Digitizer" /\ loaded[r].digitizerId = "d1"
    /\ loaded[r].digitizerStatus = "Pending"
    /\ req[r].status = "At Digitizer" /\ req[r].digitizerId = "d2"
    /\ Stored(r).digitizerId = "d2" /\ Stored(r).status = "At Digitizer"
    /\ Stored(r).digitizerStatus = "InProgress"

\* C22: no step takes the shippedQuantity of a line item of a stored order
\* to a lower value.
C22_ShippedNeverDecreases ==
  [][\A id \in DOMAIN orders : \A i \in DOMAIN orders[id].lineItems :
       /\ i \in DOMAIN orders'[id].lineItems
       /\ orders'[id].lineItems[i].shippedQuantity >= orders[id].lineItems[i].shippedQuantity]_vars

\* the targetRole the rules give to the note of a request
C23_TargetRole(q, from) ==
  IF q.shippedItems.kind # "absent" THEN "Vendor"
  ELSE IF q.status = "At Digitizer" /\ ~Prefixed(q.note) THEN "Digitizer"
  ELSE IF q.status = "At Vendor" THEN "Vendor"
  ELSE IF from = "At Digitizer" /\ q.status = "Team Review" THEN "Digitizer"
  ELSE IF from = "At Vendor" /\ q.status = "Out for Delivery" THEN "Vendor"
  ELSE "Team"

\* C23: every note that a successful updateOrderStatus request appends has
\* the targetRole of the rules: Vendor for a shipment request, Digitizer for
\* target 'At Digitizer' without the "Team rejected:" prefix, Vendor for
\* target 'At Vendor', Digitizer for 'At Digitizer' to 'Team Review', Vendor
\* for 'At Vendor' to 'Out for Delivery', and Team in every other case, a
\* rejection back to 'At Digitizer' included.
C23_NoteTargetRole ==
  \A r \in Slots :
    (Answered(r, "updateOrderStatus") /\ res[r] = 200) =>
      \A i \in DOMAIN Stored(r).notes :
        i > Len(loaded[r].notes)
          => Stored(r).notes[i].targetRole = C23_TargetRole(req[r], loaded[r].status)

\* C25: a request whose shipment list has no entry that names a line item
\* (the empty list included) is not answered 409 when its target is the
\* current status; when it is answered 200 no shippedQuantity has changed, no
\* note has been appended, and the stored status is 'Out for Delivery' if
\* every line item is fully shipped and 'Partially Shipped' otherwise.
C25_Unmatched(q, lineItems) ==
  /\ q.shippedItems.kind = "array"
  /\ \A k \in DOMAIN q.shippedItems.items : \A i \in DOMAIN lineItems :
       lineItems[i].name # q.shippedItems.items[k].name

C25_UnmatchedShipment ==
  \A r \in Slots :
    (Answered(r, "updateOrderStatus") /\ loaded[r] # NoDoc
       /\ C25_Unmatched(req[r], Stored(r).lineItems)) =>
      /\ req[r].status = loaded[r].status => res[r] # 409
      /\ res[r] = 200
           => /\ \A i \in DOMAIN Stored(r).lineItems :
                   Stored(r).lineItems[i].shippedQuantity
                     = IF i \in DOMAIN loaded[r].lineItems
                         THEN loaded[r].lineItems[i].shippedQuantity ELSE 0
              /\ Stored(r).notes = loaded[r].notes
              /\ Stored(r).status =
                   IF \A i \in DOMAIN Stored(r).lineItems :
                        Stored(r).lineItems[i].shippedQuantity >= Stored(r).lineItems[i].quantity
                     THEN "Out for Delivery" ELSE "Partially Shipped"

\* an empty shipment list with target 'At Vendor' for an order 'At Vendor'
\* was answered 200 and the order is stored 'Partially Shipped' with the
\* notes and quantities it had
C25_Witness ==
  \E r \in Slots :
    /\ Answered(r, "updateOrderStatus") /\ res[r] = 200
    /\ req[r].shippedItems = Shipment(<<>>)
    /\ req[r].status = "At Vendor" /\ loaded[r].status = "At Vendor"
    /\ Stored(r).status = "Partially Shipped"
    /\ Stored(r).notes = loaded[r].notes
    /\ Stored(r).lineItems = loaded[r].lineItems

\* C26: a request whose shipment payload cannot be parsed, or is parsed to
\* something that is not a list, is answered 400 and leaves the stored order
\* as it was loaded.
C26_MalformedShipment ==
  \A r \in Slots :
    (Answered(r, "updateOrderStatus") /\ loaded[r] # NoDoc
       /\ req[r].shippedItems.kind \in {"garbage", "object"})
    => (res[r] = 400 /\ Stored(r) = loaded[r])

\* C27: after a successful edit request the stored order is the loaded one
\* with the content of the addressed note replaced and its isEdited set: the
\* note's id, authorName, authorRole, targetRole and timestamp, the other
\* notes, the order of the notes, and the status, attachments, lineItems and
\* associatedUsers of the order are as loaded.
C27_EditFrame ==
  \A r \in Slots :
    (Answered(r, "updateOrderNote") /\ res[r] = 200) =>
      \E i \in DOMAIN loaded[r].notes :
        /\ loaded[r].notes[i].id = req[r].noteId
        /\ Stored(r) = [loaded[r] EXCEPT !.notes[i].content = req[r].content,
                                         !.notes[i].isEdited = TRUE]

\* an admin edited the note of a team member that is followed by a note of
\* the digitizer; the later note and the timestamp of the edited one are as
\* they were
C27_Witness ==
  \E r \in Slots :
    /\ Answered(r, "updateOrderNote") /\ res[r] = 200
    /\ req[r].user.role = "Admin"
    /\ Len(loaded[r].notes) = 4
    /\ loaded[r].notes[3].id = req[r].noteId
    /\ loaded[r].notes[3].authorRole = "Team"
    /\ loaded[r].notes[4].authorRole = "Digitizer"
    /\ Stored(r).notes[3].content = req[r].content
    /\ Stored(r).notes[3].content # loaded[r].notes[3].content
    /\ Stored(r).notes[3].timestamp = loaded[r].notes[3].timestamp
    /\ Stored(r).notes[4] = loaded[r].notes[4]

\* the statuses of an order that is with the vendor or beyond
C28_VendorSide == {"At Vendor", "Partially Shipped", "Out for Delivery"}

\* C28: with requests that carry no shipment entries, every step that
\* brings a stored order to 'At Vendor', 'Partially Shipped' or 'Out for
\* Delivery' from a status outside these three starts at 'Team Review', and
\* every step that brings it to 'Team Review' starts at 'At Digitizer'; so
\* an order that starts 'At Team' has one of the three statuses only after
\* it has been 'Team Review', and is 'Team Review' only after it has been
\* 'At Digitizer'.
C28_StatusOrder ==
  [][\A id \in DOMAIN orders :
       /\ (orders'[id].status \in C28_VendorSide /\ orders[id].status \notin C28_VendorSide)
            => orders[id].status = "Team Review"
       /\ (orders'[id].status = "Team Review" /\ orders[id].status # "Team Review")
            => orders[id].status = "At Digitizer"]_vars

\* the order went by the digitizer, the review and the vendor and is stored
\* 'Out for Delivery' by a request without shipment entries
C28_Witness ==
  \E r \in Slots :
    /\ Answered(r, "updateOrderStatus") /\ res[r] = 200
    /\ req[r].shippedItems.kind = "absent"
    /\ loaded[r].status = "At Vendor" /\ req[r].status = "Out for Delivery"
    /\ Stored(r).status = "Out for Delivery"
    /\ \E i \in DOMAIN Stored(r).notes : Stored(r).notes[i].content[1] = "Assigned to "
    /\ \E i \in DOMAIN Stored(r).notes : Stored(r).notes[i].content[1] = "Sent to "

\* C29: a successful request without shipment entries whose target is
\* 'At Digitizer' (its note not beginning with "Team rejected:") or
\* 'At Vendor' appends exactly one note to the notes the order had, and that
\* note begins with "Assigned to " respectively "Sent to ", whether or not
\* the request has note text or changes the status.
C29_OneAssignmentNote ==
  \A r \in Slots :
    (Answered(r, "updateOrderStatus") /\ res[r] = 200
       /\ req[r].shippedItems.kind = "absent"
       /\ \/ req[r].status = "At Digitizer" /\ ~Prefixed(req[r].note)
          \/ req[r].status = "At Vendor") =>
      /\ Len(Stored(r).notes) = Len(loaded[r].notes) + 1
      /\ SubSeq(Stored(r).notes, 1, Len(loaded[r].notes)) = loaded[r].notes
      /\ Stored(r).notes[Len(Stored(r).notes)].content[1]
           = IF req[r].status = "At Digitizer" THEN "Assigned to " ELSE "Sent to "

\* a request that only raised the priority of an order that stayed
\* 'At Digitizer', without note text, appended an "Assigned to" note
C29_Witness ==
  \E r \in Slots :
    /\ Answered(r, "updateOrderStatus") /\ res[r] = 200
    /\ req[r].status = "At Digitizer" /\ loaded[r].status = "At Digitizer"
    /\ Len(req[r].note) = 0 /\ req[r].priority = "High"
    /\ req[r].digitizerId = Undefined /\ req[r].digitizerStatus = Undefined
    /\ Len(Stored(r).notes) = Len(loaded[r].notes) + 1
    /\ Stored(r).notes[Len(Stored(r).notes)].content[1] = "Assigned to "

\* C30: every attachment that a successful updateOrderStatus request adds
\* has uploadedBy equal to the role of the acting user and fromShopify false.
C30_UploadedByIsActorRole ==
  \A r \in Slots :
    (Answered(r, "updateOrderStatus") /\ res[r] = 200) =>
      \A i \in DOMAIN Stored(r).attachments :
        i > Len(loaded[r].attachments)
          => /\ Stored(r).attachments[i].uploadedBy = req[r].user.role
             /\ ~Stored(r).attachments[i].fromShopify

====
